---- MODULE Spec2Model ----
(***************************************************************************)
(* homebox-label-maker: the asset list notation (src/src/asset_list.rs)    *)
(* and the part of main (src/src/main.rs) that parses, validates and       *)
(* expands it.                                                             *)
(*                                                                         *)
(* Text is a sequence of one-character strings.  An AssetId is the pair    *)
(* <<primary, secondary>>; an Option is <<>> (None) or <<v>> (Some(v)).    *)
(***************************************************************************)
EXTENDS Integers, Sequences, FiniteSets, TLC

\* ------------------------------------------------------------------ bounds

\* Items written on the command line.
MaxItems == 2
\* Longest range (in members) the generated inputs contain.
MaxSpan == 3
\* Calls of next made on one expansion in SpecIter.
MaxCalls == 5
\* Identifiers recorded from one expansion in SpecLong.
MaxOut == 3
\* Number of values of an AssetId component's machine word.  The program's
\* word is u16 (2^16 values); the model keeps the modular arithmetic on the
\* narrowest power of two that still holds every three-digit component.
WordMod == 1024

\* ------------------------------------------------------------- AssetId

\* `if self.1 > 999`: the largest secondary component before the carry.
MaxComp == 999

ASCII_DIGIT == <<"0", "1", "2", "3", "4", "5", "6", "7", "8", "9">>

IsDigit(c) == \E d \in 1..10 : ASCII_DIGIT[d] = c

DigitVal(c) == (CHOOSE d \in 1..10 : ASCII_DIGIT[d] = c) - 1

None == <<>>

Some(v) == <<v>>

\* derive(PartialOrd, Ord) on the tuple struct: the primary component
\* decides, the secondary breaks ties.
Less(x, y) == x[1] < y[1] \/ (x[1] = y[1] /\ x[2] < y[2])

\* What `+= 1` on a machine word can do: the sum, or at the top of the word
\* either a panic (overflow checks on) or the wrapped value (checks off).
AddOne(n) ==
    IF n + 1 < WordMod
    THEN {[panic |-> FALSE, v |-> n + 1]}
    ELSE {[panic |-> TRUE, v |-> n], [panic |-> FALSE, v |-> (n + 1) % WordMod]}

\* increment without the carry: the secondary component just grows.
increment_no_carry(id) ==
    {[panic |-> s.panic, id |-> <<id[1], s.v>>] : s \in AddOne(id[2])}

\* AssetId::increment: the set of outcomes of one call on id.
increment(id) ==
    { IF s.panic
      THEN [panic |-> TRUE, id |-> id]
      ELSE IF s.v > MaxComp
           THEN IF p.panic
                THEN [panic |-> TRUE, id |-> <<id[1], 0>>]
                ELSE [panic |-> FALSE, id |-> <<p.v, 0>>]
           ELSE [panic |-> FALSE, id |-> <<id[1], s.v>>]
      : s \in AddOne(id[2]), p \in AddOne(id[1]) }

\* The decimal digits of n, most significant first.
RECURSIVE Decimal(_)
Decimal(n) ==
    IF n < 10 THEN <<ASCII_DIGIT[n + 1]>>
    ELSE Decimal(n \div 10) \o <<ASCII_DIGIT[(n % 10) + 1]>>

\* `{}` in place of `{:03}`: no padding.
Unpadded(t) == t

\* `{:03}`: zero-padded on the left up to three characters, never cut.
RECURSIVE Pad3(_)
Pad3(t) == IF Len(t) < 3 THEN Pad3(<<"0">> \o t) ELSE t

\* Display for AssetId: "{_0:03}-{_1:03}".
Display(id) == Pad3(Decimal(id[1])) \o <<"-">> \o Pad3(Decimal(id[2]))

\* ------------------------------------------------------------- grammar

Fail == [ok |-> FALSE]

\* WHITESPACE = _{ " " }, skipped between the tokens of non-atomic rules.
RECURSIVE Skip(_, _)
Skip(s, i) == IF i <= Len(s) /\ s[i] = " " THEN Skip(s, i + 1) ELSE i

At(s, i, c) == i <= Len(s) /\ s[i] = c

\* AssetIdComp = @{ ASCII_DIGIT{3} }
AssetIdCompRule(s, i) ==
    IF i + 2 <= Len(s) /\ IsDigit(s[i]) /\ IsDigit(s[i + 1]) /\ IsDigit(s[i + 2])
    THEN [ok |-> TRUE, pos |-> i + 3, str |-> SubSeq(s, i, i + 2)]
    ELSE Fail

\* AssetId = ${ AssetIdComp ~ "-" ~ AssetIdComp }  (no whitespace inside)
AssetIdRule(s, i) ==
    LET c1 == AssetIdCompRule(s, i) IN
    IF ~c1.ok \/ ~At(s, c1.pos, "-") THEN Fail
    ELSE LET c2 == AssetIdCompRule(s, c1.pos + 1) IN
         IF ~c2.ok THEN Fail
         ELSE [ok |-> TRUE, pos |-> c2.pos,
               pair |-> [rule |-> "AssetId", inner |-> <<c1.str, c2.str>>]]

\* Range = { AssetId ~ "--" ~ AssetId }
RangeRule(s, i) ==
    LET a == AssetIdRule(s, i) IN
    IF ~a.ok THEN Fail
    ELSE LET j == Skip(s, a.pos) IN
         IF ~(At(s, j, "-") /\ At(s, j + 1, "-")) THEN Fail
         ELSE LET b == AssetIdRule(s, Skip(s, j + 2)) IN
              IF ~b.ok THEN Fail
              ELSE [ok |-> TRUE, pos |-> b.pos,
                    pair |-> [rule |-> "Range", inner |-> <<a.pair, b.pair>>]]

\* (Range | AssetId): ordered choice, the second tried from the same place.
ItemRule(s, i) ==
    LET r == RangeRule(s, i) IN IF r.ok THEN r ELSE AssetIdRule(s, i)

\* ( "," ~ (Range | AssetId) )*: as many repetitions as match; one that
\* fails is undone whole.  ListTail is at i with the pairs matched so far,
\* ListTailItem has tried the item after the comma.
RECURSIVE ListTail(_, _, _)
ListTailItem(s, i, it, pairs) ==
    IF ~it.ok THEN [ok |-> TRUE, pos |-> i, pairs |-> pairs]
    ELSE ListTail(s, it.pos, Append(pairs, it.pair))

ListTail(s, i, pairs) ==
    IF ~At(s, Skip(s, i), ",") THEN [ok |-> TRUE, pos |-> i, pairs |-> pairs]
    ELSE ListTailItem(s, i, ItemRule(s, Skip(s, Skip(s, i) + 1)), pairs)

\* List = { (Range | AssetId) ~ ( "," ~ (Range | AssetId) )* }
ListFrom(s, first) ==
    IF ~first.ok THEN Fail ELSE ListTail(s, first.pos, <<first.pair>>)

ListRule(s, i) == ListFrom(s, ItemRule(s, i))

\* Input without EOI: what follows the list is not looked at.
InputEndOpen(s, l) == l

\* Input = { SOI ~ List ~ EOI }
InputEnd(s, l) ==
    IF l.ok /\ Skip(s, l.pos) = Len(s) + 1 THEN l ELSE Fail

InputRule(s) == InputEnd(s, ListRule(s, Skip(s, 1)))

\* ------------------------------------------------------------- parse

\* str::parse::<u16> on a run of digits.
RECURSIVE ParseU16(_)
ParseU16(t) ==
    IF Len(t) = 0 THEN 0
    ELSE 10 * ParseU16(SubSeq(t, 1, Len(t) - 1)) + DigitVal(t[Len(t)])

parse_id(p) == <<ParseU16(p.inner[1]), ParseU16(p.inner[2])>>

Id(id) == [tag |-> "Id", id |-> id]

Range(from, to) == [tag |-> "Range", from |-> from, to |-> to]

parse_range_or_id(p) ==
    IF p.rule = "AssetId" THEN Id(parse_id(p))
    ELSE Range(parse_id(p.inner[1]), parse_id(p.inner[2]))

\* parse pushing to the front of the list: the entries come out backwards.
ListOfBackwards(r) ==
    IF ~r.ok THEN [ok |-> FALSE, list |-> <<>>]
    ELSE [ok |-> TRUE,
          list |-> [k \in 1..Len(r.pairs) |->
                      parse_range_or_id(r.pairs[Len(r.pairs) + 1 - k])]]

\* parse, given what the grammar made of the input: Err (the grammar's
\* error) or Ok with one ListEntry per pair, in the order matched.
ListOf(r) ==
    IF ~r.ok THEN [ok |-> FALSE, list |-> <<>>]
    ELSE [ok |-> TRUE,
          list |-> [k \in 1..Len(r.pairs) |-> parse_range_or_id(r.pairs[k])]]

parse(s) == ListOf(InputRule(s))

\* ------------------------------------------------------------- validate

\* `to <= from` in place of `to < from`.
ReversedOrEqual(item) == item.tag = "Range" /\ ~Less(item.from, item.to)

\* The `to < from` test of validate.
Reversed(item) == item.tag = "Range" /\ Less(item.to, item.from)

\* Validate for Vec<ListEntry>: TRUE for Ok(()), FALSE for the Err.
validate(l) == ~(\E k \in 1..Len(l) : Reversed(l[k]))

\* ------------------------------------------------------------- expansion

\* IntoIterator for ListEntry.
into_iter(e) == [at |-> None, entry |-> e]

\* next without the `*at > to` test: a Range never ends.
next_unchecked(it) ==
    IF it.entry.tag = "Id"
    THEN IF it.at = None
         THEN {[it |-> [it EXCEPT !.at = Some(it.entry.id)],
                ret |-> Some(it.entry.id), panic |-> FALSE]}
         ELSE {[it |-> it, ret |-> None, panic |-> FALSE]}
    ELSE IF it.at # None
         THEN { [it |-> [it EXCEPT !.at = Some(o.id)],
                 ret |-> IF o.panic THEN None ELSE Some(o.id),
                 panic |-> o.panic]
                : o \in increment(it.at[1]) }
         ELSE {[it |-> [it EXCEPT !.at = Some(it.entry.from)],
                ret |-> Some(it.entry.from), panic |-> FALSE]}

\* ListEntryIter::next: the set of outcomes of one call, each the iterator
\* afterwards, what the call returned, and whether it panicked instead of
\* returning.
next(it) ==
    IF it.entry.tag = "Id"
    THEN IF it.at = None
         THEN {[it |-> [it EXCEPT !.at = Some(it.entry.id)],
                ret |-> Some(it.entry.id), panic |-> FALSE]}
         ELSE {[it |-> it, ret |-> None, panic |-> FALSE]}
    ELSE IF it.at # None
         THEN { [it |-> [it EXCEPT !.at = Some(o.id)],
                 ret |-> IF o.panic \/ Less(it.entry.to, o.id)
                         THEN None ELSE Some(o.id),
                 panic |-> o.panic]
                : o \in increment(it.at[1]) }
         ELSE {[it |-> [it EXCEPT !.at = Some(it.entry.from)],
                ret |-> Some(it.entry.from), panic |-> FALSE]}

\* ------------------------------------------------------- command line

\* Identifiers the generated command lines are written with, as typed and
\* as the pair each one denotes.
SampleText ==
    << <<"0", "0", "0", "-", "9", "9", "8">>,
       <<"0", "0", "0", "-", "9", "9", "9">>,
       <<"0", "0", "1", "-", "0", "0", "0">>,
       <<"9", "9", "9", "-", "9", "9", "9">> >>

SampleId == << <<0, 998>>, <<0, 999>>, <<1, 0>>, <<999, 999>> >>

Samples == 1..Len(SampleId)

\* Members of the range f--t when f <= t.
Span(f, t) == (t[1] - f[1]) * (MaxComp + 1) + (t[2] - f[2]) + 1

\* Items that are no identifier and no range, as typed.
BadText(kind) ==
    CASE kind = "short"    -> <<"1", "2", "-", "0", "0", "0">>
      [] kind = "long"     -> <<"0", "0", "0", "-", "0", "0", "0", "0">>
      [] kind = "nondigit" -> <<"0", "0", "a", "-", "0", "0", "0">>
      [] kind = "no_to"    -> <<"0", "0", "0", "-", "9", "9", "9", "-", "-">>
      [] kind = "no_from"  -> <<"-", "-", "0", "0", "0", "-", "9", "9", "9">>
      [] kind = "dash"     -> <<"0", "0", "0", "-", "0", "0", "0", "-">>
      [] kind = "split"    -> <<"0", "0", "0", " ", "-", "9", "9", "9">>

BadKinds == {"short", "long", "nondigit", "no_to", "no_from", "dash", "split"}

\* One item of the assets argument: an identifier, a range (reversed ones
\* included, long ones left out), or a malformed item.
Items ==
    {[kind |-> "id", a |-> a, b |-> a] : a \in Samples}
    \cup {r \in [kind : {"range"}, a : Samples, b : Samples] :
            Less(SampleId[r.b], SampleId[r.a])
            \/ Span(SampleId[r.a], SampleId[r.b]) <= MaxSpan}
    \cup {[kind |-> k, a |-> 1, b |-> 1] : k \in BadKinds}

\* How the items are laid out: with bare commas, with spaces around every
\* token, or with a comma too many.
Layouts == {"plain", "spaced", "leading", "dangling", "doubled"}

ItemText(item, layout) ==
    CASE item.kind = "id" -> SampleText[item.a]
      [] item.kind = "range" ->
           SampleText[item.a]
           \o (IF layout = "spaced" THEN <<" ", "-", "-", " ">> ELSE <<"-", "-">>)
           \o SampleText[item.b]
      [] OTHER -> BadText(item.kind)

Separator(layout) ==
    CASE layout = "spaced" -> <<" ", ",", " ", " ">>
      [] layout = "doubled" -> <<",", ",">>
      [] OTHER -> <<",">>

RECURSIVE Joined(_, _)
Joined(items, layout) ==
    IF Len(items) = 0 THEN <<>>
    ELSE IF Len(items) = 1 THEN ItemText(items[1], layout)
    ELSE ItemText(items[1], layout) \o Separator(layout)
         \o Joined(Tail(items), layout)

\* The assets argument as the program receives it.
AssetsText(w) ==
    CASE w.layout = "spaced" -> <<" ">> \o Joined(w.items, w.layout) \o <<" ", " ">>
      [] w.layout = "leading" -> <<",">> \o Joined(w.items, w.layout)
      [] w.layout = "dangling" -> Joined(w.items, w.layout) \o <<",">>
      [] OTHER -> Joined(w.items, w.layout)

ItemSeqs == UNION {[1..n -> Items] : n \in 0..MaxItems}

\* Every command line of the model (a doubled comma needs two items).
CommandLines ==
    {w \in [items : ItemSeqs, layout : Layouts] :
        w.layout = "doubled" => Len(w.items) >= 2}

NoCommand == [items |-> <<>>, layout |-> "plain"]

\* ------------------------------------------------------------- state

VARIABLES
    written,    \* the assets argument, item by item, as the user typed it
    input,      \* args.assets
    pc,         \* where main is
    list,       \* main's list
    iter,       \* the ListEntryIter of the running `for asset_id in entry`
    asset_id,   \* the loop variable asset_id
    labels,     \* main's labels, each named by the identifier fetched
    asset,      \* an AssetId to be rendered
    its,        \* expansions driven directly, by number
    ended,      \* whether a call of next on it has returned None
    out,        \* the identifiers it yielded before that
    late,       \* the identifiers it yielded after that
    last,       \* how the latest call on it ended
    calls       \* calls of next made on it (up to MaxCalls)

vars ==
    <<written, input, pc, list, iter, asset_id, labels, asset,
      its, ended, out, late, last, calls>>

mainVars == <<written, input, pc, list, iter, asset_id, labels, asset>>

iterVars == <<its, ended, out, late, last, calls>>

NoIter == into_iter(Id(<<0, 0>>))

Expansions == 1..2

IdleIters ==
    /\ its = [i \in Expansions |-> NoIter]
    /\ ended = [i \in Expansions |-> FALSE]
    /\ out = [i \in Expansions |-> <<>>]
    /\ late = [i \in Expansions |-> <<>>]
    /\ last = [i \in Expansions |-> "new"]
    /\ calls = [i \in Expansions |-> 0]

IdleMain ==
    /\ written = NoCommand
    /\ input = <<>>
    /\ list = <<>>
    /\ iter = NoIter
    /\ asset_id = <<0, 0>>
    /\ labels = <<>>
    /\ asset = <<0, 0>>

\* main, with args.assets given, about to parse it.
Init ==
    /\ written \in CommandLines
    /\ input = AssetsText(written)
    /\ pc = "parse"
    /\ list = <<>>
    /\ iter = NoIter
    /\ asset_id = <<0, 0>>
    /\ labels = <<>>
    /\ asset = <<0, 0>>
    /\ IdleIters

\* ------------------------------------------------------------- main

\* let list = asset_list::parse(args.assets).context(..)?;
Parse ==
    /\ pc = "parse"
    /\ \E r \in {parse(input)} :
         /\ pc' = IF r.ok THEN "validate" ELSE "syntax_error"
         /\ list' = r.list
    /\ UNCHANGED <<written, input, iter, asset_id, labels, asset, iterVars>>

\* validate's result dropped (no `?`): main goes on whatever it was.
ValidateUnchecked ==
    /\ pc = "validate"
    /\ pc' = "entries"
    /\ UNCHANGED <<written, input, list, iter, asset_id, labels, asset, iterVars>>

\* list.validate().context(..)?;
Validate ==
    /\ pc = "validate"
    /\ pc' = IF validate(list) THEN "entries" ELSE "range_error"
    /\ UNCHANGED <<written, input, list, iter, asset_id, labels, asset, iterVars>>

\* for entry in list: the next entry is moved out of the list and turned
\* into its iterator; with none left the loop is over.
ForEntry ==
    /\ pc = "entries"
    /\ IF Len(list) = 0
       THEN pc' = "done" /\ UNCHANGED <<list, iter>>
       ELSE /\ iter' = into_iter(Head(list))
            /\ list' = Tail(list)
            /\ pc' = "ids"
    /\ UNCHANGED <<written, input, asset_id, labels, asset, iterVars>>

\* for asset_id in entry: one call of next.
ForAssetId ==
    /\ pc = "ids"
    /\ \E o \in next(iter) :
         /\ iter' = o.it
         /\ IF o.panic THEN pc' = "panic" /\ UNCHANGED asset_id
            ELSE IF o.ret = None THEN pc' = "entries" /\ UNCHANGED asset_id
            ELSE pc' = "get" /\ asset_id' = o.ret[1]
    /\ UNCHANGED <<written, input, list, labels, asset, iterVars>>

\* The request for the label of asset_id: its bytes are pushed, or the
\* request fails and main returns the error.
GetLabel ==
    /\ pc = "get"
    /\ \/ labels' = Append(labels, asset_id) /\ pc' = "ids"
       \/ pc' = "get_failed" /\ UNCHANGED labels
    /\ UNCHANGED <<written, input, list, iter, asset_id, asset, iterVars>>

Next == Parse \/ Validate \/ ForEntry \/ ForAssetId \/ GetLabel

Spec == Init /\ [][Next]_vars

\* ------------------------------------------------- expansions, driven

\* One cursor behind every expansion: a call on one moves them all.
CallNextShared(i) ==
    /\ last[i] # "panic"
    /\ \E o \in next(its[i]) :
         /\ its' = [j \in Expansions |-> o.it]
         /\ last' = [last EXCEPT ![i] =
                IF o.panic THEN "panic" ELSE IF o.ret = None THEN "end" ELSE "item"]
         /\ ended' = [ended EXCEPT ![i] = @ \/ (~o.panic /\ o.ret = None)]
         /\ out' = [out EXCEPT ![i] =
                IF ~ended[i] /\ ~o.panic /\ o.ret # None THEN Append(@, o.ret[1]) ELSE @]
         /\ late' = [late EXCEPT ![i] =
                IF ended[i] /\ ~o.panic /\ o.ret # None THEN Append(@, o.ret[1]) ELSE @]
         /\ calls' = [calls EXCEPT ![i] = IF @ < MaxCalls THEN @ + 1 ELSE @]
    /\ UNCHANGED mainVars

\* One call of next on expansion i, by whoever holds it.  A panic ends the
\* program, so nothing is called after one.
CallNext(i) ==
    /\ last[i] # "panic"
    /\ \E o \in next(its[i]) :
         /\ its' = [its EXCEPT ![i] = o.it]
         /\ last' = [last EXCEPT ![i] =
                IF o.panic THEN "panic" ELSE IF o.ret = None THEN "end" ELSE "item"]
         /\ ended' = [ended EXCEPT ![i] = @ \/ (~o.panic /\ o.ret = None)]
         /\ out' = [out EXCEPT ![i] =
                IF ~ended[i] /\ ~o.panic /\ o.ret # None THEN Append(@, o.ret[1]) ELSE @]
         /\ late' = [late EXCEPT ![i] =
                IF ended[i] /\ ~o.panic /\ o.ret # None THEN Append(@, o.ret[1]) ELSE @]
         /\ calls' = [calls EXCEPT ![i] = IF @ < MaxCalls THEN @ + 1 ELSE @]
    /\ UNCHANGED mainVars

\* Identifiers the driven expansions are made of.
IterIds == {SampleId[a] : a \in Samples} \cup {<<MaxComp, MaxComp - 1>>}

\* ListEntry values: any two parsed identifiers make a Range, in either
\* direction (validate is not part of an expansion).
IterEntries ==
    {Id(x) : x \in IterIds}
    \cup {Range(p[1], p[2]) :
            p \in {q \in IterIds \X IterIds :
                     Less(q[2], q[1]) \/ Span(q[1], q[2]) <= MaxSpan}}

\* Two expansions of equal entries, a bounded number of calls on each, in
\* any order.
IterInit ==
    /\ IdleMain
    /\ pc = "iter"
    /\ \E e \in IterEntries : its = [i \in Expansions |-> into_iter(e)]
    /\ ended = [i \in Expansions |-> FALSE]
    /\ out = [i \in Expansions |-> <<>>]
    /\ late = [i \in Expansions |-> <<>>]
    /\ last = [i \in Expansions |-> "new"]
    /\ calls = [i \in Expansions |-> 0]

IterNext == \E i \in Expansions : calls[i] < MaxCalls /\ CallNext(i)

SpecIter == IterInit /\ [][IterNext]_vars

\* Entries at the top of the identifier space, where the cursor's word is
\* within reach of its end.
TopIds == {<<MaxComp, MaxComp - 1>>, <<MaxComp, MaxComp>>}

LongEntries == {Id(x) : x \in TopIds} \cup {Range(f, t) : f \in TopIds, t \in TopIds}

\* One expansion, called for as long as the caller likes.
LongInit ==
    /\ IdleMain
    /\ pc = "iter"
    /\ \E e \in LongEntries : its = [i \in Expansions |-> into_iter(e)]
    /\ ended = [i \in Expansions |-> FALSE]
    /\ out = [i \in Expansions |-> <<>>]
    /\ late = [i \in Expansions |-> <<>>]
    /\ last = [i \in Expansions |-> "new"]
    /\ calls = [i \in Expansions |-> 0]

LongNext == Len(late[1]) < MaxOut /\ CallNext(1)

SpecLong == LongInit /\ [][LongNext]_vars

\* ------------------------------------------------- rendering and back

\* Identifiers rendered and parsed back: every value in each component.
RoundTripIds == {<<a, b>> : a \in 0..MaxComp, b \in {0, MaxComp}}
                \cup {<<a, b>> : a \in {0, MaxComp}, b \in 0..MaxComp}

RenderInit ==
    /\ asset \in RoundTripIds
    /\ pc = "render"
    /\ written = NoCommand
    /\ input = <<>>
    /\ list = <<>>
    /\ iter = NoIter
    /\ asset_id = <<0, 0>>
    /\ labels = <<>>
    /\ IdleIters

\* The identifier's Display text becomes the whole input.
Render ==
    /\ pc = "render"
    /\ input' = Display(asset)
    /\ pc' = "parse"
    /\ UNCHANGED <<written, list, iter, asset_id, labels, asset, iterVars>>

RenderNext == Render \/ Parse

SpecRender == RenderInit /\ [][RenderNext]_vars

\* ------------------------------------------------------------- claims

\* The identifier order and the members of a range, stated on the position
\* of an identifier among all identifiers rather than by the program's steps.
Rank(id) == id[1] * (MaxComp + 1) + id[2]

Unrank(n) == <<n \div (MaxComp + 1), n % (MaxComp + 1)>>

Precedes(x, y) == Rank(x) < Rank(y)

Interval(f, t) ==
    IF Precedes(t, f) THEN <<>>
    ELSE [k \in 1..(Rank(t) - Rank(f) + 1) |-> Unrank(Rank(f) + k - 1)]

IsPrefix(a, b) == Len(a) <= Len(b) /\ a = SubSeq(b, 1, Len(a))

\* What the items of the command line denote.
Denoted(item) ==
    CASE item.kind = "id" -> Id(SampleId[item.a])
      [] item.kind = "range" -> Range(SampleId[item.a], SampleId[item.b])
      [] OTHER -> [tag |-> "malformed"]

DenotedList(w) == [k \in 1..Len(w.items) |-> Denoted(w.items[k])]

Members(e) == IF e.tag = "Id" THEN <<e.id>> ELSE Interval(e.from, e.to)

RECURSIVE Flattened(_)
Flattened(l) == IF Len(l) = 0 THEN <<>> ELSE Members(Head(l)) \o Flattened(Tail(l))

WrittenReversed(w) ==
    \E k \in 1..Len(w.items) :
        /\ w.items[k].kind = "range"
        /\ Precedes(SampleId[w.items[k].b], SampleId[w.items[k].a])

WrittenWell(w) ==
    /\ Len(w.items) >= 1
    /\ w.layout \in {"plain", "spaced"}
    /\ \A k \in 1..Len(w.items) : w.items[k].kind \in {"id", "range"}

\* Empty, a leading, dangling or doubled comma, a range with a side missing,
\* a component that is not three digits.
WrittenMalformed(w) ==
    \/ Len(w.items) = 0
    \/ w.layout \in {"leading", "dangling", "doubled"}
    \/ \E k \in 1..Len(w.items) :
         w.items[k].kind \in {"short", "long", "nondigit", "no_to", "no_from", "dash"}

IsRange(i) == its[i].entry.tag = "Range"

Forward(i) == IsRange(i) /\ ~Precedes(its[i].entry.to, its[i].entry.from)

\* C1: a Range entry with from <= to yields, call after call, exactly the
\* identifiers from from to to in increasing order with no gap and no
\* repeat (carrying from (a,999) to (a+1,0)), and then end.
C1_RangeYieldsInterval ==
    \A i \in Expansions :
        Forward(i) =>
            IF ended[i]
            THEN out[i] = Interval(its[i].entry.from, its[i].entry.to)
            ELSE /\ Len(out[i]) = calls[i]
                 /\ IsPrefix(out[i], Interval(its[i].entry.from, its[i].entry.to))

C1_Witness ==
    /\ its[1].entry = Range(<<0, 998>>, <<1, 0>>)
    /\ ended[1]
    /\ out[1] = << <<0, 998>>, <<0, 999>>, <<1, 0>> >>

\* C2: validate fails exactly when some Range entry has from > to; singles
\* and ranges with from <= to (from = to included) pass; a reversed range
\* is parsed into a Range entry and then rejected.
C2_ValidateRejectsExactlyReversed ==
    /\ pc = "range_error" => WrittenReversed(written) /\ list = DenotedList(written)
    /\ pc \in {"entries", "ids", "get", "get_failed", "done"} => ~WrittenReversed(written)
    /\ pc = "validate" => list = DenotedList(written)

C2_Witness ==
    /\ pc = "range_error"
    /\ list = <<Range(<<1, 0>>, <<0, 999>>)>>

\* C3: an accepted input gives one entry per item in the order written, and
\* consuming the entries in that order yields the concatenation of their
\* expansions, unsorted and with repeats.
C3_OrderPreserved ==
    /\ pc \in {"validate", "range_error"} => list = DenotedList(written)
    /\ pc \notin {"parse", "syntax_error", "render", "iter"} =>
         IsPrefix(labels, Flattened(DenotedList(written)))
    /\ pc = "done" => labels = Flattened(DenotedList(written))

C3_Witness ==
    /\ pc = "done"
    /\ labels = << <<1, 0>>, <<0, 999>>, <<1, 0>> >>

\* C4: an input that is empty, has a leading, dangling or doubled comma, a
\* range with a side missing or a component that is not three digits is
\* a syntax error, and no list comes of it.
C4_MalformedRejected ==
    (WrittenMalformed(written) /\ pc # "parse") =>
        (pc = "syntax_error" /\ list = <<>> /\ labels = <<>>)

C4_Witness ==
    /\ pc = "syntax_error"
    /\ written.layout = "doubled"
    /\ \A k \in 1..Len(written.items) : written.items[k].kind \in {"id", "range"}

InWord(id) == id[1] \in 0..MaxComp /\ id[2] \in 0..MaxComp

\* C5: every identifier the program holds, the cursor of the running
\* expansion included, has both components in 0..999.
C5_NeverPastMaximum ==
    /\ iter.at # None => InWord(iter.at[1])
    /\ InWord(asset_id)
    /\ \A k \in 1..Len(labels) : InWord(labels[k])

\* next called n times on a fresh expansion of e, nobody else involved.
AloneStep(before, o) ==
    [it |-> o.it,
     yielded |-> IF o.ret = None THEN before.yielded
                 ELSE Append(before.yielded, o.ret[1])]

AloneNext(before) == AloneStep(before, CHOOSE o \in next(before.it) : TRUE)

RECURSIVE Alone(_, _)
Alone(e, n) ==
    IF n = 0 THEN [it |-> into_iter(e), yielded |-> <<>>]
    ELSE AloneNext(Alone(e, n - 1))

\* C6: two expansions of the same entry do not share their cursor: however
\* the calls on the two interleave, each is where it would be, and has
\* yielded what it would have, had it been called alone.
C6_ExpansionsIndependent ==
    \A i \in Expansions :
        /\ its[i] = Alone(its[i].entry, calls[i]).it
        /\ out[i] \o late[i] = Alone(its[i].entry, calls[i]).yielded

C6_Witness ==
    /\ its[1].entry = Range(<<0, 998>>, <<1, 0>>)
    /\ calls[1] = 3
    /\ calls[2] = 1
    /\ out[2] = << <<0, 998>> >>
    /\ last[1] = "item"

\* C7: an identifier with components in 0..999, rendered and parsed as the
\* whole input, gives exactly one Single entry with the same components.
C7_RenderParseRoundTrip ==
    pc \notin {"render", "parse"} => (pc = "validate" /\ list = <<Id(asset)>>)

C7_Witness ==
    /\ pc = "validate"
    /\ asset = <<7, 0>>
    /\ input = <<"0", "0", "7", "-", "0", "0", "0">>

Expanding ==
    \/ pc \in {"ids", "get", "get_failed", "done"}
    \/ iter # NoIter
    \/ labels # <<>>

\* C8: nothing is expanded and no identifier reaches the label request
\* unless the whole input parsed and the whole list validated; a syntax
\* error or a reversed range anywhere ends the run before any identifier.
C8_ParseValidateThenExpand ==
    /\ Expanding => (WrittenWell(written) /\ ~WrittenReversed(written))
    /\ pc \in {"syntax_error", "range_error"} => ~Expanding

C8_Witness ==
    /\ pc = "range_error"
    /\ Len(written.items) = 2
    /\ written.items[1].kind = "id"
    /\ written.items[2].kind = "range"

\* C9: once next has returned end, every later call returns end as well.
C9_StaysEnded ==
    \A i \in Expansions : ended[i] => (last[i] = "end" /\ late[i] = <<>>)

\* C10 (as claimed): every value a Range entry yields lies between from
\* and to, whatever from and to are.
C10_AlwaysWithinBounds ==
    \A i \in Expansions :
        IsRange(i) =>
            \A k \in 1..Len(out[i] \o late[i]) :
                /\ ~Precedes((out[i] \o late[i])[k], its[i].entry.from)
                /\ ~Precedes(its[i].entry.to, (out[i] \o late[i])[k])

\* C10 (amended): the first value a Range entry yields is from, whether or
\* not from <= to; every other value yielded up to the first end lies
\* between from and to, and no value yielded after it exceeds to.  So with
\* from <= to everything yielded up to the first end is within from..to,
\* and with from > to the one value yielded, from, exceeds to.
C10_WithinBoundsAfterFirst ==
    \A i \in Expansions :
        IsRange(i) =>
            /\ Len(out[i]) >= 1 => out[i][1] = its[i].entry.from
            /\ \A k \in 2..Len(out[i]) :
                 /\ ~Precedes(out[i][k], its[i].entry.from)
                 /\ ~Precedes(its[i].entry.to, out[i][k])
            /\ \A k \in 1..Len(late[i]) : ~Precedes(its[i].entry.to, late[i][k])
            /\ (ended[i] /\ ~Forward(i)) => Len(out[i]) = 1

C10_Witness ==
    /\ its[1].entry = Range(<<MaxComp, MaxComp>>, <<MaxComp, MaxComp - 1>>)
    /\ ended[1]
    /\ out[1] = << <<MaxComp, MaxComp>> >>

====
